---- MODULE Spec2Model ----
(***************************************************************************)
(* alienv (src/src/main.rs): alias environments kept as one directory per  *)
(* environment under ~/.alienv, each holding one alias file, and the       *)
(* shell variable ALIAS_ENV naming the active one.  The binary cannot      *)
(* change its parent shell: it prints shell statements and the shell       *)
(* evaluates them.                                                         *)
(*                                                                         *)
(* Text is modelled as a sequence of one-character strings, so that the    *)
(* regular expression, the substring search and the scan of an alias line  *)
(* are computed character by character as the code computes them.          *)
(* Environment names are single path components (no separator, not "."     *)
(* or ".."): root.push(env) then names the directory entry env itself.     *)
(***************************************************************************)
EXTENDS Naturals, Sequences, FiniteSets, TLC

VARIABLES
    store,      \* ~/.alienv: existing environment directory |-> lines of its alias file
    ALIAS_ENV,  \* the shell's variable: <<>> when unset, <<value>> when set
    stdout,     \* statements printed by the last invocation
    exit_code,  \* exit status of the last invocation
    argv,       \* the last invocation: [cmd, env, alias, command]
    aliases,    \* the alias names the shell holds from the statements it evaluated
    other_env,  \* the variable ALIAS_ENV of a second shell session, and
    other_aliases   \* that session's alias names

vars == <<store, ALIAS_ENV, stdout, exit_code, argv, aliases, other_env, other_aliases>>

(***************************************************************************)
(* Constants of the program                                                *)
(***************************************************************************)
NO_ENV_ACTIVE == <<"N", "O", " ", "E", "N", "V">>

\* the character class of VALID_ENV_REGEX, "[-_.A-Za-z0-9]+"
VALID_ENV_REGEX ==
    {"-", "_", "."}
    \cup {"a","b","c","d","e","f","g","h","i","j","k","l","m",
          "n","o","p","q","r","s","t","u","v","w","x","y","z"}
    \cup {"A","B","C","D","E","F","G","H","I","J","K","L","M",
          "N","O","P","Q","R","S","T","U","V","W","X","Y","Z"}
    \cup {"0","1","2","3","4","5","6","7","8","9"}

Whitespace == {" ", "\t"}

(***************************************************************************)
(* Bounds and inputs                                                       *)
(***************************************************************************)
\* add is not offered once the store holds this many alias lines in all
MaxLines == 2

BadName == <<"b", "a", "d", " ", "n", "a", "m", "e", "!">>

EnvNames == {<<"w">>, <<"p">>, BadName, NO_ENV_ACTIVE, <<"!">>}

AliasNames == {<<"a">>, <<"g">>, <<"m", " ", "n">>}

\* the (alias, command) pairs given to add: a plain one, one whose command
\* holds the text "alias a=", and one whose alias name holds a space
AddInputs ==
    { <<(<<"a">>), (<<"l", "s">>)>>,
      <<(<<"g">>), (<<"l", "s">>)>>,
      <<(<<"g">>), (<<"a", "l", "i", "a", "s", " ", "a", "=", "1">>)>>,
      <<(<<"m", " ", "n">>), (<<"l", "s">>)>> }

(***************************************************************************)
(* Statements of the command buffer                                        *)
(***************************************************************************)
Stmt(k, v) == [k |-> k, v |-> v]

\* lib::get_shell().setenv(ENV_VAR, status): the statement that assigns status
\* to the variable.  The sentinel itself holds a space, so the statement has to
\* carry its value whole; the shell then holds exactly status.
setenv(status) == Stmt("setenv", status)

add_output_line(output, line) == Append(output, line)

set_alias_var(output, status) == add_output_line(output, setenv(status))

\* a handler still running, with the store and the buffer it has so far
running(st, output) == [st |-> st, out |-> output, code |-> 0]

\* error(msg): prints the one echo statement and exits 1; the buffer is dropped
error(st, msg) == [st |-> st, out |-> <<Stmt("error", msg)>>, code |-> 1]

\* unwrap()/expect() on an Err: the process aborts, nothing reaches stdout
panic(st) == [st |-> st, out |-> <<>>, code |-> 101]

ErrInvalidName ==
    <<"Not a valid environment name. Only numbers, letters, period, underscore, and hyphen allowed.">>
ErrAlreadyExists(env) == <<"Environment ">> \o env \o <<" already exists.">>
ErrNoSuchEnv(env) == <<"No such environment: ">> \o env
ErrNotExist(env) == <<"Environment ">> \o env \o <<" does not exist.">>
ErrAlreadyLoaded == <<"Environment already loaded">>
ErrNoActive == <<"No alias env active.">>
ErrUnset == <<"$ALIAS_ENV does not exist. Rerun setup.">>
ErrNoSuchAlias == <<"No such alias.">>
ErrInvalidFile == <<"Invalid alias file">>
ErrAccess == <<"Unable to access aliases">>

(***************************************************************************)
(* Util                                                                    *)
(***************************************************************************)
is_cur_env(ev, env) == ev # <<>> /\ ev[1] = env

\* mutant: the comparison with NO_ENV_ACTIVE is left out
is_valid_env_name_regex_only(env) ==
    \E i \in 1..Len(env) : env[i] \in VALID_ENV_REGEX

\* Regex::is_match is unanchored: some run of class characters occurs in env
is_valid_env_name(env) ==
    /\ \E i \in 1..Len(env) : env[i] \in VALID_ENV_REGEX
    /\ env # NO_ENV_ACTIVE

\* read_dir of the root, compared entry by entry with env
env_exists(st, env) == \E entry \in DOMAIN st : env = entry

\* Path::exists(root/env)
Path_exists(st, env) == env \in DOMAIN st

\* str::contains
contains(line, text) ==
    \E i \in 0..Len(line) :
        /\ i + Len(text) <= Len(line)
        /\ SubSeq(line, i + 1, i + Len(text)) = text

\* format!("alias {}=\"{}\"", alias, command)
format_alias(alias, command) ==
    <<"a", "l", "i", "a", "s", " ">> \o alias \o <<"=", "\"">> \o command \o <<"\"">>

\* format!("alias {}=", alias)
search_text(alias) == <<"a", "l", "i", "a", "s", " ">> \o alias \o <<"=">>

(***************************************************************************)
(* scan_fmt!(line, "alias {}={}", String, String)                          *)
(***************************************************************************)
AliasFormat == <<"a", "l", "i", "a", "s", " ", "{", "}", "=", "{", "}">>

\* first position from i on that holds no whitespace (Len(s) + 1 at the end)
RECURSIVE skip_whitespace(_, _)
skip_whitespace(s, i) ==
    IF i <= Len(s) /\ s[i] \in Whitespace THEN skip_whitespace(s, i + 1) ELSE i

\* end of the token that starts at i: up to whitespace or the end character
RECURSIVE get_token(_, _, _)
get_token(s, i, end_char) ==
    IF i <= Len(s) /\ s[i] \notin Whitespace /\ s[i] # end_char
    THEN get_token(s, i + 1, end_char)
    ELSE i

\* the scanner's loop: whitespace is skipped on both sides, "{}" takes a
\* token, any other format character must equal the input's; a mismatch
\* invalidates the matches found so far
RECURSIVE scan(_, _, _, _, _)
scan(fmt, fi, inp, ii, res) ==
    LET f == skip_whitespace(fmt, fi)
        i == skip_whitespace(inp, ii)
    IN  IF f > Len(fmt) \/ i > Len(inp) THEN res
        ELSE IF fmt[f] = "{"
        THEN LET end_char == IF f + 2 <= Len(fmt) THEN fmt[f + 2] ELSE " "
                 j == get_token(inp, i, end_char)
             IN  scan(fmt, f + 2, inp, j, Append(res, SubSeq(inp, i, j - 1)))
        ELSE IF fmt[f] # inp[i] THEN <<>>
        ELSE scan(fmt, f + 1, inp, i + 1, res)

\* Ok((alias, _)) needs both values
scan_fmt(line) ==
    LET res == scan(AliasFormat, 1, line, 1, <<>>)
    IN  IF Len(res) >= 2 THEN [ok |-> TRUE, alias |-> res[1]]
        ELSE [ok |-> FALSE, alias |-> <<>>]

(***************************************************************************)
(* Alias files                                                             *)
(***************************************************************************)
\* mutant: only the first line that contains the search text is dropped
filter_first_match(lines, text) ==
    LET hits == {i \in 1..Len(lines) : contains(lines[i], text)}
    IN  IF hits = {} THEN lines
        ELSE LET h == CHOOSE i \in hits : \A j \in hits : i <= j
             IN  SubSeq(lines, 1, h - 1) \o SubSeq(lines, h + 1, Len(lines))

\* the lines that stay: those that do not contain the search text
filter_lines(lines, text) == SelectSeq(lines, LAMBDA line : ~contains(line, text))

\* Delete alias from file: found tells whether a line was removed
delete_alias_from_file(st, env, alias) ==
    IF env \notin DOMAIN st
    THEN [r |-> error(st, ErrAccess), found |-> FALSE]
    ELSE LET lines == st[env]
             new_lines == filter_lines(lines, search_text(alias))
         IN  IF Len(new_lines) = Len(lines)
             THEN [r |-> running(st, <<>>), found |-> FALSE]
             ELSE [r |-> running([st EXCEPT ![env] = new_lines], <<>>),
                   found |-> TRUE]

\* Unalias all commands in an env
unalias_all(st, output, env) ==
    IF env \notin DOMAIN st THEN error(st, ErrAccess)
    ELSE LET lines == st[env]
         IN  IF \E i \in 1..Len(lines) : ~scan_fmt(lines[i]).ok
             THEN error(st, ErrInvalidFile)
             ELSE running(st, output \o
                    [i \in 1..Len(lines) |-> Stmt("unalias", scan_fmt(lines[i]).alias)])

\* Alias all commands in an env: the lines are emitted as they are
alias_all(st, output, env) ==
    IF env \notin DOMAIN st THEN error(st, ErrAccess)
    ELSE running(st, output \o
           [i \in 1..Len(st[env]) |-> Stmt("alias", st[env][i])])

(***************************************************************************)
(* Setup                                                                   *)
(***************************************************************************)
\* the marker is set on first use
setup(output, ev) ==
    IF ev = <<>> THEN set_alias_var(output, NO_ENV_ACTIVE) ELSE output

(***************************************************************************)
(* Subcommands                                                             *)
(***************************************************************************)
\* mutant: the check for the environment being loaded already is left out
load_without_loaded_check(st, ev, output, env) ==
    IF ~env_exists(st, env) THEN error(st, ErrNotExist(env))
    ELSE LET r == IF ev # <<>> /\ ev[1] # NO_ENV_ACTIVE
                  THEN unalias_all(st, output, ev[1])
                  ELSE running(st, output)
         IN  IF r.code # 0 THEN r
             ELSE alias_all(st, set_alias_var(r.out, env), env)

\* mutant: the marker is set after the aliases of the new environment
load_setting_marker_last(st, ev, output, env) ==
    IF ~env_exists(st, env) THEN error(st, ErrNotExist(env))
    ELSE IF ev # <<>> /\ ev[1] = env THEN error(st, ErrAlreadyLoaded)
    ELSE LET r == IF ev # <<>> /\ ev[1] # NO_ENV_ACTIVE
                  THEN unalias_all(st, output, ev[1])
                  ELSE running(st, output)
             a == alias_all(st, r.out, env)
         IN  IF r.code # 0 THEN r
             ELSE IF a.code # 0 THEN a
             ELSE running(a.st, set_alias_var(a.out, env))

\* Load a new environment
load(st, ev, output, env) ==
    IF ~env_exists(st, env) THEN error(st, ErrNotExist(env))
    ELSE IF ev # <<>> /\ ev[1] = env THEN error(st, ErrAlreadyLoaded)
    ELSE LET r == IF ev # <<>> /\ ev[1] # NO_ENV_ACTIVE
                  THEN unalias_all(st, output, ev[1])
                  ELSE running(st, output)
         IN  IF r.code # 0 THEN r
             ELSE alias_all(st, set_alias_var(r.out, env), env)

\* the directory of env with an empty alias file in it
create_dir(st, env) ==
    [n \in DOMAIN st \cup {env} |-> IF n = env THEN <<>> ELSE st[n]]

\* mutant: the check for an existing environment is left out
new_without_exists_check(st, ev, output, env) ==
    IF ~is_valid_env_name(env) THEN error(st, ErrInvalidName)
    ELSE load(create_dir(st, env), ev, output, env)

\* mutant: the environment is created and not loaded
new_without_load(st, ev, output, env) ==
    IF ~is_valid_env_name(env) THEN error(st, ErrInvalidName)
    ELSE IF env_exists(st, env) THEN error(st, ErrAlreadyExists(env))
    ELSE running(create_dir(st, env), output)

\* Create a new alias environment and switch to it
new(st, ev, output, env) ==
    IF ~is_valid_env_name(env) THEN error(st, ErrInvalidName)
    ELSE IF env_exists(st, env) THEN error(st, ErrAlreadyExists(env))
    ELSE load(create_dir(st, env), ev, output, env)

\* mutant: the directory is left in place
remove_dir_all_skipped(st, env) == st

\* fs::remove_dir_all(root/env)
remove_dir_all(st, env) == [n \in DOMAIN st \ {env} |-> st[n]]

\* mutant: the active environment is deleted without resetting the marker
delete_keeps_marker(st, ev, output, env) ==
    IF ~Path_exists(st, env) THEN error(st, ErrNoSuchEnv(env))
    ELSE running(remove_dir_all(st, env), output)

\* mutant: the marker is reset before the aliases are unloaded
delete_set_first(st, ev, output, env) ==
    IF ~Path_exists(st, env) THEN error(st, ErrNoSuchEnv(env))
    ELSE LET r == IF is_cur_env(ev, env)
                  THEN unalias_all(st, set_alias_var(output, NO_ENV_ACTIVE), env)
                  ELSE running(st, output)
         IN  IF r.code # 0 THEN r
             ELSE running(remove_dir_all(st, env), r.out)

\* Delete an alias environment
delete(st, ev, output, env) ==
    IF ~Path_exists(st, env) THEN error(st, ErrNoSuchEnv(env))
    ELSE LET r == IF is_cur_env(ev, env)
                  THEN LET u == unalias_all(st, output, env)
                       IN  IF u.code # 0 THEN u
                           ELSE running(st, set_alias_var(u.out, NO_ENV_ACTIVE))
                  ELSE running(st, output)
         IN  IF r.code # 0 THEN r
             ELSE running(remove_dir_all(st, env), r.out)

\* mutant: no entry is told from the others
show_all_without_star(st, ev, output, order) ==
    running(st, output \o [i \in 1..Len(order) |-> Stmt("echo", order[i])])

\* one echo per directory entry, in the order read_dir yields them
show_all(st, ev, output, order) ==
    running(st, output \o
        [i \in 1..Len(order) |->
            IF is_cur_env(ev, order[i])
            THEN Stmt("echo", order[i] \o <<"*">>)
            ELSE Stmt("echo", order[i])])

\* mutant: the sentinel is not told from the name of an environment
add_alias_without_sentinel_check(st, ev, output, alias, command) ==
    IF ev = <<>> THEN error(st, ErrUnset)
    ELSE IF ev[1] \notin DOMAIN st THEN panic(st)
    ELSE LET new_alias == format_alias(alias, command)
         IN  running([st EXCEPT ![ev[1]] = Append(@, new_alias)],
                     add_output_line(output, Stmt("alias", new_alias)))

\* mutant: a record of the same alias name is replaced
add_alias_replacing(st, ev, output, alias, command) ==
    IF ev = <<>> THEN error(st, ErrUnset)
    ELSE IF ev[1] = NO_ENV_ACTIVE THEN error(st, ErrNoActive)
    ELSE IF ev[1] \notin DOMAIN st THEN panic(st)
    ELSE LET new_alias == format_alias(alias, command)
         IN  running([st EXCEPT ![ev[1]] =
                         Append(filter_lines(@, search_text(alias)), new_alias)],
                     add_output_line(output, Stmt("alias", new_alias)))

\* Add a new alias to the current env
add_alias(st, ev, output, alias, command) ==
    IF ev = <<>> THEN error(st, ErrUnset)
    ELSE IF ev[1] = NO_ENV_ACTIVE THEN error(st, ErrNoActive)
    ELSE IF ev[1] \notin DOMAIN st THEN panic(st)
    ELSE LET new_alias == format_alias(alias, command)
         IN  running([st EXCEPT ![ev[1]] = Append(@, new_alias)],
                     add_output_line(output, Stmt("alias", new_alias)))

\* Remove an alias from the current env
remove_alias(st, ev, output, alias) ==
    IF ev = <<>> THEN error(st, ErrUnset)
    ELSE IF ev[1] = NO_ENV_ACTIVE THEN error(st, ErrNoActive)
    ELSE LET d == delete_alias_from_file(st, ev[1], alias)
         IN  IF d.r.code # 0 THEN d.r
             ELSE IF d.found
             THEN running(d.r.st, add_output_line(output, Stmt("unalias", alias)))
             ELSE error(d.r.st, ErrNoSuchAlias)

(***************************************************************************)
(* The shell                                                               *)
(***************************************************************************)
\* the value of the variable once the shell has evaluated the statements
eval(ev, stmts) ==
    LET sets == {i \in 1..Len(stmts) : stmts[i].k = "setenv"}
    IN  IF sets = {} THEN ev
        ELSE <<stmts[CHOOSE i \in sets : \A j \in sets : j <= i].v>>

\* the words the shell splits text into: at whitespace outside double quotes,
\* the quotes removed
RECURSIVE words(_, _, _, _)
words(s, i, cur, quoted) ==
    IF i > Len(s) THEN (IF cur = <<>> THEN <<>> ELSE <<cur>>)
    ELSE IF s[i] = "\"" THEN words(s, i + 1, cur, ~quoted)
    ELSE IF s[i] \in Whitespace /\ ~quoted
    THEN (IF cur = <<>> THEN <<>> ELSE <<cur>>) \o words(s, i + 1, <<>>, FALSE)
    ELSE words(s, i + 1, Append(cur, s[i]), quoted)

\* the text of a word up to its first "="
before_eq(w) ==
    LET eqs == {i \in 1..Len(w) : w[i] = "="}
    IN  IF eqs = {} THEN w
        ELSE SubSeq(w, 1, (CHOOSE i \in eqs : \A j \in eqs : i <= j) - 1)

\* the names one statement defines: alias takes every word name=value after
\* the command word and only lists a word without "="
defined_by(stmt) ==
    IF stmt.k # "alias" THEN {}
    ELSE LET ws == words(stmt.v, 1, <<>>, FALSE)
         IN  {before_eq(ws[i]) : i \in {j \in 2..Len(ws) : before_eq(ws[j]) # ws[j]}}

\* the names one statement removes: unalias takes every word as a name
removed_by(stmt) ==
    IF stmt.k # "unalias" THEN {}
    ELSE LET ws == words(stmt.v, 1, <<>>, FALSE)
         IN  {ws[i] : i \in 1..Len(ws)}

\* the alias names of the shell once it has evaluated the statements in order
RECURSIVE eval_aliases(_, _, _)
eval_aliases(al, stmts, i) ==
    IF i > Len(stmts) THEN al
    ELSE eval_aliases((al \ removed_by(stmts[i])) \cup defined_by(stmts[i]), stmts, i + 1)

\* every order in which read_dir may yield the entries
Orders(S) ==
    {o \in [1..Cardinality(S) -> S] : \A i, j \in 1..Cardinality(S) : i # j => o[i] # o[j]}

RECURSIVE SumLines(_, _)
SumLines(st, S) ==
    IF S = {} THEN 0
    ELSE LET n == CHOOSE n \in S : TRUE
         IN  Len(st[n]) + SumLines(st, S \ {n})

TotalLines(st) == SumLines(st, DOMAIN st)

Args(cmd, env, alias, command) ==
    [cmd |-> cmd, env |-> env, alias |-> alias, command |-> command]

\* main: the process ends with r, and the shell evaluates what it printed
main(r, args) ==
    /\ store' = r.st
    /\ stdout' = r.out
    /\ exit_code' = r.code
    /\ ALIAS_ENV' = eval(ALIAS_ENV, r.out)
    /\ aliases' = eval_aliases(aliases, r.out, 1)
    /\ argv' = args
    /\ UNCHANGED <<other_env, other_aliases>>

(***************************************************************************)
(* The state machine: one action per invocation                            *)
(***************************************************************************)
Init ==
    /\ store = [n \in {} |-> <<>>]
    /\ ALIAS_ENV = <<>>
    /\ stdout = <<>>
    /\ exit_code = 0
    /\ argv = Args("", <<>>, <<>>, <<>>)
    /\ aliases = {}
    /\ other_env = <<>>
    /\ other_aliases = {}

New ==
    \E env \in EnvNames :
        main(new(store, ALIAS_ENV, setup(<<>>, ALIAS_ENV), env),
             Args("new", env, <<>>, <<>>))

Delete ==
    \E env \in EnvNames :
        main(delete(store, ALIAS_ENV, setup(<<>>, ALIAS_ENV), env),
             Args("delete", env, <<>>, <<>>))

Load ==
    \E env \in EnvNames :
        main(load(store, ALIAS_ENV, setup(<<>>, ALIAS_ENV), env),
             Args("load", env, <<>>, <<>>))

Show ==
    \E order \in Orders(DOMAIN store) :
        main(show_all(store, ALIAS_ENV, setup(<<>>, ALIAS_ENV), order),
             Args("show", <<>>, <<>>, <<>>))

Add ==
    \E input \in AddInputs :
        /\ TotalLines(store) < MaxLines
        /\ main(add_alias(store, ALIAS_ENV, setup(<<>>, ALIAS_ENV), input[1], input[2]),
                Args("add", <<>>, input[1], input[2]))

Rem ==
    \E alias \in AliasNames :
        main(remove_alias(store, ALIAS_ENV, setup(<<>>, ALIAS_ENV), alias),
             Args("rem", <<>>, alias, <<>>))

\* a new shell session over the same store: the variable is not set yet
NewShell ==
    /\ ALIAS_ENV' = <<>>
    /\ stdout' = <<>>
    /\ exit_code' = 0
    /\ argv' = Args("shell", <<>>, <<>>, <<>>)
    /\ aliases' = {}
    /\ UNCHANGED <<store, other_env, other_aliases>>

Next == New \/ Delete \/ Load \/ Show \/ Add \/ Rem \/ NewShell

Spec == Init /\ [][Next]_vars

\* two shell sessions over the one store, each with its own variable and
\* aliases: the user turns to the other session between two invocations, so
\* whole invocations of the two sessions interleave in any order
OtherShell ==
    /\ ALIAS_ENV' = other_env
    /\ aliases' = other_aliases
    /\ other_env' = ALIAS_ENV
    /\ other_aliases' = aliases
    /\ stdout' = <<>>
    /\ exit_code' = 0
    /\ argv' = Args("other", <<>>, <<>>, <<>>)
    /\ UNCHANGED store

\* the inputs of the two sessions: two environments, one alias
EnvNames2 == {<<"w">>, <<"p">>}

AddInputs2 == { <<(<<"a">>), (<<"l", "s">>)>> }

AliasNames2 == {<<"a">>}

New2 ==
    \E env \in EnvNames2 :
        main(new(store, ALIAS_ENV, setup(<<>>, ALIAS_ENV), env),
             Args("new", env, <<>>, <<>>))

Delete2 ==
    \E env \in EnvNames2 :
        main(delete(store, ALIAS_ENV, setup(<<>>, ALIAS_ENV), env),
             Args("delete", env, <<>>, <<>>))

Load2 ==
    \E env \in EnvNames2 :
        main(load(store, ALIAS_ENV, setup(<<>>, ALIAS_ENV), env),
             Args("load", env, <<>>, <<>>))

Add2 ==
    \E input \in AddInputs2 :
        /\ TotalLines(store) < MaxLines
        /\ main(add_alias(store, ALIAS_ENV, setup(<<>>, ALIAS_ENV), input[1], input[2]),
                Args("add", <<>>, input[1], input[2]))

Rem2 ==
    \E alias \in AliasNames2 :
        main(remove_alias(store, ALIAS_ENV, setup(<<>>, ALIAS_ENV), alias),
             Args("rem", <<>>, alias, <<>>))

Next2 == New2 \/ Delete2 \/ Load2 \/ Show \/ Add2 \/ Rem2 \/ OtherShell

Spec2 == Init /\ [][Next2]_vars

(***************************************************************************)
(* Vocabulary of the properties                                            *)
(***************************************************************************)
\* the variable is set and names an environment, not the sentinel
Active(ev) == ev # <<>> /\ ev[1] # NO_ENV_ACTIVE

\* the last invocation was cmd
Ran(cmd) == argv.cmd = cmd

\* the one statement an invocation that reports msg prints
Reported(msg) == <<Stmt("error", msg)>>

\* some character of env lies outside letters, digits, '.', '_' and '-'
HasInvalidChar(env) == \E i \in 1..Len(env) : env[i] \notin VALID_ENV_REGEX

\* the record of the alias file for (name, command): alias <name>="<command>"
AliasRecord(name, command) ==
    <<"a", "l", "i", "a", "s", " ">> \o name \o <<"=">> \o <<"\"">> \o command \o <<"\"">>

\* line is a record whose alias name is name: it starts with alias <name>=
RecordNamed(line, name) ==
    LET head == <<"a", "l", "i", "a", "s", " ">> \o name \o <<"=">>
    IN  Len(line) >= Len(head) /\ SubSeq(line, 1, Len(head)) = head

\* the alias name of a record: the text between "alias " and the first "="
RecordName(line) ==
    LET eq == CHOOSE i \in 7..Len(line) + 1 :
                  /\ i = Len(line) + 1 \/ line[i] = "="
                  /\ \A j \in 7..i - 1 : line[j] # "="
    IN  SubSeq(line, 7, eq - 1)

\* one unalias statement for every record of the file, in the file's order
Unaliases(lines) == [i \in 1..Len(lines) |-> Stmt("unalias", RecordName(lines[i]))]

\* the value the last set-marker statement of stmts assigns (<<>> if none)
LastSet(stmts) ==
    LET sets == {i \in 1..Len(stmts) : stmts[i].k = "setenv"}
    IN  IF sets = {} THEN <<>>
        ELSE <<stmts[CHOOSE i \in sets : \A j \in sets : j <= i].v>>

Emits(stmts, k) == \E i \in 1..Len(stmts) : stmts[i].k = k

C1_WitnessReset ==
    Ran("delete") /\ exit_code = 0 /\ ALIAS_ENV = <<NO_ENV_ACTIVE>> /\ Emits(stdout, "setenv")

(***************************************************************************)
(* C2                                                                      *)
(***************************************************************************)
\* C2: new(name) fails with InvalidName for every name that holds a character
\* outside letters, digits, '.', '_' and '-', before anything is created: the
\* set of environments is unchanged.
C2_InvalidNameRejected ==
    [][argv'.cmd = "new" /\ HasInvalidChar(argv'.env) =>
          /\ exit_code' = 1
          /\ stdout' = Reported(ErrInvalidName)
          /\ store' = store]_vars

C4_NewOnExisting ==
    [][argv'.cmd = "new" /\ env_exists(store, argv'.env) =>
          /\ exit_code' = 1
          /\ stdout' = Reported(ErrAlreadyExists(argv'.env))
          /\ store' = store
          /\ ALIAS_ENV' = ALIAS_ENV]_vars

\* new was refused on an environment whose alias file holds records
C4_Witness ==
    /\ Ran("new") /\ exit_code = 1
    /\ stdout = Reported(ErrAlreadyExists(argv.env))
    /\ Path_exists(store, argv.env) /\ store[argv.env] # <<>>

(***************************************************************************)
(* C5                                                                      *)
(***************************************************************************)
\* C5: every successful new(x) leaves the marker equal to x once the shell has
\* evaluated the output, whatever it was before; the last set-marker statement
\* printed assigns x.
C5_NewActivates ==
    [][argv'.cmd = "new" /\ exit_code' = 0 =>
          /\ ALIAS_ENV' = <<argv'.env>>
          /\ LastSet(stdout') = <<argv'.env>>]_vars

\* new succeeded while another environment with aliases was active
C5_Witness ==
    /\ Ran("new") /\ exit_code = 0
    /\ ALIAS_ENV = <<argv.env>>
    /\ Emits(stdout, "unalias")

\* new succeeded as the first use of a session: two set-marker statements
C5_WitnessFirstUse ==
    /\ Ran("new") /\ exit_code = 0
    /\ ALIAS_ENV = <<argv.env>>
    /\ Len(stdout) >= 2 /\ stdout[1] = setenv(NO_ENV_ACTIVE)

C7_DeleteTransitionAsStated ==
    [][argv'.cmd = "delete" /\ exit_code' = 0 =>
          /\ ~Path_exists(store', argv'.env)
          /\ ALIAS_ENV = <<argv'.env>> =>
                 stdout' = Unaliases(store[argv'.env]) \o <<setenv(NO_ENV_ACTIVE)>>
          /\ ALIAS_ENV # <<argv'.env>> =>
                 /\ ~Emits(stdout', "unalias")
                 /\ ~Emits(stdout', "setenv")
                 /\ ALIAS_ENV' = ALIAS_ENV]_vars

\* C7 amended: as stated, except that on the first use of a session (the
\* marker is unset) a successful delete prints the one first-use
\* set-marker(sentinel) statement of setup, and the marker goes from unset to
\* the sentinel; a marker that is set and differs from name is unchanged and
\* nothing is printed.
C7_DeleteTransition ==
    [][argv'.cmd = "delete" /\ exit_code' = 0 =>
          /\ Path_exists(store, argv'.env)
          /\ ~Path_exists(store', argv'.env)
          /\ ALIAS_ENV = <<argv'.env>> =>
                 /\ stdout' = Unaliases(store[argv'.env]) \o <<setenv(NO_ENV_ACTIVE)>>
                 /\ ALIAS_ENV' = <<NO_ENV_ACTIVE>>
          /\ ALIAS_ENV # <<argv'.env>> /\ ALIAS_ENV # <<>> =>
                 /\ stdout' = <<>>
                 /\ ALIAS_ENV' = ALIAS_ENV
          /\ ALIAS_ENV = <<>> =>
                 /\ stdout' = <<setenv(NO_ENV_ACTIVE)>>
                 /\ ALIAS_ENV' = <<NO_ENV_ACTIVE>>]_vars

\* the active environment was deleted and its aliases were unloaded first
C7_Witness ==
    /\ Ran("delete") /\ exit_code = 0
    /\ Len(stdout) >= 2
    /\ stdout[1].k = "unalias"
    /\ stdout[Len(stdout)] = setenv(NO_ENV_ACTIVE)
    /\ ~Path_exists(store, argv.env)

(***************************************************************************)
(* C8                                                                      *)
(***************************************************************************)
\* C8: right after a successful new(name) the environment exists, with an
\* empty alias file; right after a successful delete(name) it does not exist;
\* delete of a name whose directory does not exist fails with NotFound.
C8_CreateDeleteExists ==
    [][/\ argv'.cmd = "new" /\ exit_code' = 0 =>
              env_exists(store', argv'.env) /\ store'[argv'.env] = <<>>
       /\ argv'.cmd = "delete" /\ exit_code' = 0 =>
              ~env_exists(store', argv'.env)
       /\ argv'.cmd = "delete" /\ ~Path_exists(store, argv'.env) =>
              /\ exit_code' = 1
              /\ stdout' = Reported(ErrNoSuchEnv(argv'.env))
              /\ store' = store]_vars

\* an environment that held aliases was deleted, another one is left
C8_Witness ==
    /\ Ran("delete") /\ exit_code = 0
    /\ ~env_exists(store, argv.env)
    /\ Emits(stdout, "unalias")
    /\ DOMAIN store # {}

\* delete was refused on a name without a directory
C8_WitnessNotFound ==
    Ran("delete") /\ exit_code = 1 /\ stdout = Reported(ErrNoSuchEnv(argv.env))

(***************************************************************************)
(* C9                                                                      *)
(***************************************************************************)
\* C9: with an environment active, add(alias, cmd) succeeds, appends the record
\* (alias, cmd) to the active environment's file and prints that alias
\* statement; a rem(alias) that follows succeeds, prints unalias alias, and
\* leaves no record with that alias name in the file.
C9_AddThenRem ==
    [][/\ argv'.cmd = "add" /\ Active(ALIAS_ENV) =>
              LET rec == AliasRecord(argv'.alias, argv'.command)
                  file == store'[ALIAS_ENV[1]]
              IN  /\ exit_code' = 0
                  /\ file = Append(store[ALIAS_ENV[1]], rec)
                  /\ stdout' = <<Stmt("alias", rec)>>
       /\ (argv.cmd = "add" /\ exit_code = 0 /\
           argv'.cmd = "rem" /\ argv'.alias = argv.alias) =>
              /\ exit_code' = 0
              /\ stdout' = <<Stmt("unalias", argv'.alias)>>
              /\ \A i \in 1..Len(store'[ALIAS_ENV[1]]) :
                     ~RecordNamed(store'[ALIAS_ENV[1]][i], argv'.alias)]_vars

\* rem succeeded and left other records in the file
C9_Witness ==
    /\ Ran("rem") /\ exit_code = 0
    /\ stdout = <<Stmt("unalias", argv.alias)>>
    /\ Active(ALIAS_ENV) /\ store[ALIAS_ENV[1]] # <<>>

(***************************************************************************)
(* C10                                                                     *)
(***************************************************************************)
\* C10: rem(alias) for an alias name that has no record in the active
\* environment's file reports "No such alias.", leaves the file unchanged and
\* prints no unalias statement.
C10_RemUnknownAlias ==
    [][/\ argv'.cmd = "rem" /\ Active(ALIAS_ENV)
       /\ \A i \in 1..Len(store[ALIAS_ENV[1]]) :
              ~RecordNamed(store[ALIAS_ENV[1]][i], argv'.alias)
       => /\ exit_code' = 1
          /\ stdout' = Reported(ErrNoSuchAlias)
          /\ store' = store]_vars

(***************************************************************************)
(* C11                                                                     *)
(***************************************************************************)
\* C11: add and rem invoked while the marker is the sentinel fail with
\* NoActiveEnvironment ("No alias env active."), change no alias file of any
\* environment and print no alias or unalias statement.
C11_NoActiveEnvironment ==
    [][argv'.cmd \in {"add", "rem"} /\ ALIAS_ENV = <<NO_ENV_ACTIVE>> =>
          /\ exit_code' = 1
          /\ stdout' = Reported(ErrNoActive)
          /\ store' = store
          /\ aliases' = aliases]_vars

\* add was refused under the sentinel while an environment with aliases exists
C11_Witness ==
    /\ Ran("add") /\ exit_code = 1
    /\ stdout = Reported(ErrNoActive)
    /\ ALIAS_ENV = <<NO_ENV_ACTIVE>>
    /\ \E n \in DOMAIN store : store[n] # <<>>

\* rem was refused under the sentinel
C11_WitnessRem ==
    /\ Ran("rem") /\ exit_code = 1
    /\ stdout = Reported(ErrNoActive)
    /\ ALIAS_ENV = <<NO_ENV_ACTIVE>>

(***************************************************************************)
(* C12                                                                     *)
(***************************************************************************)
\* C12: every invocation ends in exactly one of two ways: it prints its
\* command buffer and exits 0, or it prints exactly one error statement, and
\* nothing of the buffer accumulated so far, and exits 1.
C12_OutputProtocol ==
    \/ exit_code = 0 /\ ~Emits(stdout, "error")
    \/ exit_code = 1 /\ \E msg \in {stdout[i].v : i \in 1..Len(stdout)} :
                            stdout = Reported(msg)

(***************************************************************************)
(* C13                                                                     *)
(***************************************************************************)
\* the echo statements of stmts, in order
Echoes(stmts) == SelectSeq(stmts, LAMBDA x : x.k = "echo")

\* the statements of stmts that are not echo statements, in order
NonEchoes(stmts) == SelectSeq(stmts, LAMBDA x : x.k # "echo")

\* stmts lists every environment of st exactly once, and stars exactly the
\* one whose name is the marker ev
ListsStore(stmts, st, ev) ==
    /\ Len(Echoes(stmts)) = Cardinality(DOMAIN st)
    /\ \A n \in DOMAIN st :
          /\ \E i \in 1..Len(Echoes(stmts)) : Echoes(stmts)[i].v \in {n, n \o <<"*">>}
          /\ (\E i \in 1..Len(Echoes(stmts)) : Echoes(stmts)[i].v = n \o <<"*">>)
                 <=> ev = <<n>>

\* C13 as stated: show emits one echo per existing environment, starred if
\* and only if its name equals the marker, and changes neither the store nor
\* the marker.
C13_ShowAsStated ==
    [][argv'.cmd = "show" =>
          /\ exit_code' = 0
          /\ ListsStore(stdout', store, ALIAS_ENV)
          /\ store' = store
          /\ ALIAS_ENV' = ALIAS_ENV]_vars

\* C13: show emits one echo per existing environment, starred if and only
\* if its name equals the marker; it never changes the store, and leaves a
\* set marker as it is.  On first use in a session (marker unset) it also
\* prints the first-use set-marker(sentinel) before the list, so the marker
\* goes from unset to the sentinel.
C13_Show ==
    [][argv'.cmd = "show" =>
          /\ exit_code' = 0
          /\ ListsStore(stdout', store, ALIAS_ENV)
          /\ store' = store
          /\ NonEchoes(stdout') =
                 (IF ALIAS_ENV = <<>> THEN <<setenv(NO_ENV_ACTIVE)>> ELSE <<>>)
          /\ ALIAS_ENV' = (IF ALIAS_ENV = <<>> THEN <<NO_ENV_ACTIVE>> ELSE ALIAS_ENV)]_vars

\* show listed two environments and starred the active one
C13_Witness ==
    /\ Ran("show") /\ exit_code = 0
    /\ Cardinality(DOMAIN store) = 2
    /\ Active(ALIAS_ENV)
    /\ \E i \in 1..Len(stdout) : stdout[i] = Stmt("echo", ALIAS_ENV[1] \o <<"*">>)
    /\ \E i \in 1..Len(stdout) : stdout[i].k = "echo" /\ stdout[i].v \in DOMAIN store \ {ALIAS_ENV[1]}

\* show was the first invocation of a session over a store with environments
C13_WitnessFirstUse ==
    /\ Ran("show") /\ exit_code = 0
    /\ DOMAIN store # {}
    /\ Len(stdout) > 1 /\ stdout[1] = setenv(NO_ENV_ACTIVE)

(***************************************************************************)
(* C14                                                                     *)
(***************************************************************************)
\* the statement setup prints ahead of a subcommand's own statements
FirstUse(ev) == IF ev = <<>> THEN <<setenv(NO_ENV_ACTIVE)>> ELSE <<>>

\* one alias statement for every line of the file, in the file's order
Aliases(lines) == [i \in 1..Len(lines) |-> Stmt("alias", lines[i])]

\* C14: a successful load(target) emits, in this order, one unalias for every
\* alias of the previously active environment (none when the marker is the
\* sentinel or unset), set-marker(target), and one alias statement for every
\* record of target; load of a nonexistent target fails with NotFound and
\* emits no statement of the plan.
C14_LoadOrder ==
    [][argv'.cmd = "load" =>
          /\ exit_code' = 0 =>
                stdout' = FirstUse(ALIAS_ENV)
                          \o (IF Active(ALIAS_ENV)
                              THEN Unaliases(store[ALIAS_ENV[1]]) ELSE <<>>)
                          \o <<setenv(argv'.env)>>
                          \o Aliases(store[argv'.env])
          /\ argv'.env \notin DOMAIN store =>
                /\ exit_code' = 1
                /\ stdout' = Reported(ErrNotExist(argv'.env))
                /\ store' = store /\ ALIAS_ENV' = ALIAS_ENV]_vars

\* a load from one environment with an alias to another with an alias
C14_Witness ==
    /\ Ran("load") /\ exit_code = 0
    /\ Len(stdout) = 3
    /\ stdout[1].k = "unalias"
    /\ stdout[2] = setenv(argv.env)
    /\ stdout[3].k = "alias"

\* a load of an environment that does not exist
C14_WitnessNotFound ==
    /\ Ran("load") /\ exit_code = 1
    /\ argv.env \notin DOMAIN store
    /\ DOMAIN store # {}
    /\ stdout = Reported(ErrNotExist(argv.env))

(***************************************************************************)
(* C15                                                                     *)
(***************************************************************************)
\* C15 as stated: after any sequence of add and rem operations the alias
\* file of an environment holds at most one record for each alias name.
C15_AliasNameUnique ==
    \A n \in DOMAIN store : \A i, j \in 1..Len(store[n]) :
        RecordName(store[n][i]) = RecordName(store[n][j]) => i = j

\* C15: add detects no duplicate: a successful add(a, c) appends the record
\* of (a, c) to the file of the active environment and keeps every record
\* already there, one for a included, so a name may be recorded several
\* times; after a successful rem(a) the file holds no record for a.
C15_AddAppends ==
    [][/\ (argv'.cmd = "add" /\ exit_code' = 0) =>
              store' = [store EXCEPT ![ALIAS_ENV[1]] =
                           Append(@, AliasRecord(argv'.alias, argv'.command))]
       /\ (argv'.cmd = "rem" /\ exit_code' = 0) =>
              \A i \in 1..Len(store'[ALIAS_ENV[1]]) :
                  ~RecordNamed(store'[ALIAS_ENV[1]][i], argv'.alias)]_vars

\* a second add of a name left two records for it in the file
C15_Witness ==
    /\ Ran("add") /\ exit_code = 0
    /\ \E n \in DOMAIN store : \E i, j \in 1..Len(store[n]) :
          i # j /\ RecordName(store[n][i]) = RecordName(store[n][j])

(***************************************************************************)
(* C16                                                                     *)
(***************************************************************************)
\* C16: an invocation that ends in a reported error (exit 1) leaves the
\* store, the set of environment directories and the contents of every
\* alias file, exactly as it was before the invocation; a new(x) that fails
\* leaves no directory x behind.
C16_NoPartialApplication ==
    [][exit_code' = 1 /\ argv'.cmd \in {"new", "delete", "load", "show", "add", "rem"}
          => store' = store]_vars

(***************************************************************************)
(* C17                                                                     *)
(***************************************************************************)
\* line has the shape of an alias record: alias <name>="<command>", the
\* name one word
ValidRecord(line) ==
    LET name == RecordName(line)
    IN  /\ Len(line) >= 6 /\ SubSeq(line, 1, 6) = <<"a", "l", "i", "a", "s", " ">>
        /\ name # <<>> /\ \A i \in 1..Len(name) : name[i] \notin Whitespace
        /\ Len(line) >= Len(name) + 9
        /\ line[Len(name) + 7] = "="
        /\ line[Len(name) + 8] = "\""
        /\ line[Len(line)] = "\""

\* some line of the file is not a valid alias record
Corrupt(lines) == \E i \in 1..Len(lines) : ~ValidRecord(lines[i])

\* the invocation unloads the active environment and its file is corrupt
UnloadsCorrupt ==
    /\ Active(ALIAS_ENV) /\ ALIAS_ENV[1] \in DOMAIN store
    /\ Corrupt(store[ALIAS_ENV[1]])
    /\ \/ argv'.cmd = "load" /\ argv'.env \in DOMAIN store \ {ALIAS_ENV[1]}
       \/ argv'.cmd = "new" /\ argv'.env \in DOMAIN store' \ DOMAIN store
       \/ argv'.cmd = "delete" /\ argv'.env = ALIAS_ENV[1]

\* the invocation loads the aliases of a target whose file is corrupt
LoadsCorrupt ==
    /\ argv'.cmd = "load" /\ argv'.env \in DOMAIN store
    /\ ALIAS_ENV # <<argv'.env>>
    /\ Corrupt(store[argv'.env])

\* C17: every operation that reads an alias file with a line that is not a
\* valid alias record fails with CorruptFile ("Invalid alias file"), whether
\* it unloads the active environment (load, new, delete) or loads the
\* target's aliases (load), and emits no line of the corrupt file.
C17_CorruptFileRejected ==
    [][UnloadsCorrupt \/ LoadsCorrupt =>
          /\ exit_code' = 1
          /\ stdout' = Reported(ErrInvalidFile)]_vars

(***************************************************************************)
(* C18                                                                     *)
(***************************************************************************)
\* the records of the file whose alias name is not name, in the file's order
RecordsNotNamed(lines, name) == SelectSeq(lines, LAMBDA l : RecordName(l) # name)

\* C18: a successful rem(a) removes only records whose alias name is a:
\* every record of the active environment with another name, one whose
\* command text contains `alias a=` included, is still present afterwards in
\* the original relative order, and no other environment's file changes.
C18_RemFrame ==
    [][argv'.cmd = "rem" /\ exit_code' = 0 =>
          /\ DOMAIN store' = DOMAIN store
          /\ RecordsNotNamed(store'[ALIAS_ENV[1]], argv'.alias)
                 = RecordsNotNamed(store[ALIAS_ENV[1]], argv'.alias)
          /\ \A n \in DOMAIN store \ {ALIAS_ENV[1]} : store'[n] = store[n]]_vars

(***************************************************************************)
(* C19                                                                     *)
(***************************************************************************)
\* the alias names recorded in the file
RecordedNames(lines) == {RecordName(lines[i]) : i \in 1..Len(lines)}

\* C19: in a shell session that starts with no alias defined and evaluates
\* the output of every invocation, the alias names defined in the shell are
\* those recorded in the alias file of the active environment, and there are
\* none when the marker is the sentinel: no alias of a previously active or
\* deleted environment stays defined.  (Stated for alias files whose lines
\* are all valid records, where the recorded names are defined.)
C19_ShellAgreesWithFile ==
    /\ (/\ Active(ALIAS_ENV) /\ ALIAS_ENV[1] \in DOMAIN store
        /\ ~Corrupt(store[ALIAS_ENV[1]])) =>
          aliases = RecordedNames(store[ALIAS_ENV[1]])
    /\ ALIAS_ENV = <<NO_ENV_ACTIVE>> => aliases = {}

(***************************************************************************)
(* C20                                                                     *)
(***************************************************************************)
\* the marker is unset, the sentinel or the name of an existing environment
NamesExisting(ev, st) ==
    ev = <<>> \/ ev = <<NO_ENV_ACTIVE>> \/ ev[1] \in DOMAIN st

\* C20: with two shell sessions over one store, each with its own marker and
\* running whole invocations one after another, the marker of each session
\* names an existing environment or the sentinel after any interleaving,
\* also after one session deleted the environment active in the other, and
\* no invocation ends in an unreported crash: each ends with exit 0 or with
\* a reported error and exit 1.
C20_CrossSessionSafety ==
    /\ NamesExisting(ALIAS_ENV, store)
    /\ NamesExisting(other_env, store)
    /\ exit_code \in {0, 1}

\* C20, the crash alone: no invocation of either session ends otherwise
\* than with exit 0 or exit 1.
C20_NoCrash == exit_code \in {0, 1}

====
